---- MODULE Spec2Model ----
(***************************************************************************)
(* Knowledge-hub backend: the article store, the identifier numbering and  *)
(* the ingestion / search handlers of the server.                          *)
(*                                                                         *)
(* The repository carries several revisions of the server file.  A         *)
(* behaviour of this model runs ONE revision, chosen in Init:              *)
(*   "v1"  src/server.js 1-209        caller-supplied articleNumber        *)
(*   "v2"  src/server.js 211-637      normalizeKB, 409, import, upload     *)
(*   "v3"  src/unnamed/part_004 1-316 auto numbering with getNextKB        *)
(* (src/unnamed/part_004 318-648 repeats the v2 handlers it contains.)     *)
(*                                                                         *)
(* Strings the code computes on (articleNumber) are sequences of           *)
(* one-character strings.  Every `await` of a handler on the store is a    *)
(* point where another request may run; a handler with one store call is   *)
(* one action, a handler with several is one action per store call.        *)
(***************************************************************************)
EXTENDS Integers, Sequences, FiniteSets, TLC

(***************************************************************************)
(* Bounds                                                                  *)
(***************************************************************************)
MaxReq == 2

MaxStore == 2

MaxSections == 2

MaxIssued == 2

MaxFiles == 1

Req == 1..MaxReq

(***************************************************************************)
(* Characters and strings                                                  *)
(***************************************************************************)
DigitChars == <<"0", "1", "2", "3", "4", "5", "6", "7", "8", "9">>

\* Code unit of a character (the store compares strings by code unit).
Ord(c) ==
  CASE c = "\n" -> 10
    [] c = " " -> 32
    [] c = "+" -> 43
    [] c = "-" -> 45
    [] c = "." -> 46
    [] c = "0" -> 48 [] c = "1" -> 49 [] c = "2" -> 50 [] c = "3" -> 51
    [] c = "4" -> 52 [] c = "5" -> 53 [] c = "6" -> 54 [] c = "7" -> 55
    [] c = "8" -> 56 [] c = "9" -> 57
    [] c = ":" -> 58
    [] c = "A" -> 65 [] c = "B" -> 66 [] c = "E" -> 69 [] c = "K" -> 75
    [] c = "N" -> 78 [] c = "P" -> 80 [] c = "S" -> 83 [] c = "T" -> 84
    [] c = "U" -> 85 [] c = "Y" -> 89
    [] c = "a" -> 97 [] c = "b" -> 98 [] c = "d" -> 100 [] c = "e" -> 101
    [] c = "i" -> 105 [] c = "k" -> 107 [] c = "l" -> 108 [] c = "n" -> 110
    [] c = "p" -> 112 [] c = "s" -> 115 [] c = "t" -> 116 [] c = "y" -> 121

IsDigit(c) == Ord(c) \in 48..57

IsSpace(c) == c \in {" ", "\n"}

UpperChar(c) ==
  CASE c = "a" -> "A" [] c = "b" -> "B" [] c = "k" -> "K" [] c = "s" -> "S"
    [] c = "e" -> "E" [] c = "p" -> "P" [] c = "t" -> "T" [] c = "y" -> "Y"
    [] OTHER -> c

toUpperCase(s) == [i \in 1..Len(s) |-> UpperChar(s[i])]

RECURSIVE trimStart(_)
trimStart(s) ==
  IF s # <<>> /\ IsSpace(Head(s)) THEN trimStart(Tail(s)) ELSE s

RECURSIVE trimEnd(_)
trimEnd(s) ==
  IF s # <<>> /\ IsSpace(s[Len(s)]) THEN trimEnd(SubSeq(s, 1, Len(s) - 1)) ELSE s

trim(s) == trimEnd(trimStart(s))

\* String(n) for a non-negative integer.
RECURSIVE NumToStr(_)
NumToStr(n) ==
  IF n < 10 THEN <<DigitChars[n + 1]>>
  ELSE NumToStr(n \div 10) \o <<DigitChars[(n % 10) + 1]>>

\* a < b in the store's (binary) string order.
RECURSIVE StrLess(_, _)
StrLess(a, b) ==
  IF b = <<>> THEN FALSE
  ELSE IF a = <<>> THEN TRUE
  ELSE IF Ord(Head(a)) # Ord(Head(b)) THEN Ord(Head(a)) < Ord(Head(b))
  ELSE StrLess(Tail(a), Tail(b))

NaN == -1

\* parseInt(s): leading white space skipped, then the leading decimal digits;
\* NaN when there is none.
RECURSIVE ParseDigits(_, _)
ParseDigits(s, acc) ==
  IF s # <<>> /\ IsDigit(Head(s))
  THEN ParseDigits(Tail(s), acc * 10 + (Ord(Head(s)) - 48))
  ELSE acc

parseInt(s) ==
  LET t == trimStart(s)
  IN IF t # <<>> /\ IsDigit(Head(t)) THEN ParseDigits(t, 0) ELSE NaN

KBPrefix == <<"K", "B", "-">>

kbLower == <<"k", "b", "-">>

\* s.replace("KB-", ""): the first occurrence removed.
replaceKB(s) ==
  LET hits == {i \in 1..Len(s) : i + 2 <= Len(s) /\ SubSeq(s, i, i + 2) = KBPrefix}
  IN IF hits = {} THEN s
     ELSE LET i == CHOOSE h \in hits : \A g \in hits : h <= g
          IN SubSeq(s, 1, i - 1) \o SubSeq(s, i + 3, Len(s))

\* `${prefix}${num}`
fmtId(prefix, num) ==
  prefix \o (IF num = NaN THEN <<"N", "a", "N">> ELSE NumToStr(num))

\* normalizeKB(articleNumber) = String(articleNumber || "").trim().toUpperCase()
normalizeKB(articleNumber) == toUpperCase(trim(articleNumber))

\* s.replace(/\s+/g, " "): every run of white space becomes one space (the
\* first character of a run is replaced by a space, the others are dropped).
collapse(s) ==
  LET marked == [i \in 1..Len(s) |->
                   IF ~IsSpace(s[i]) THEN s[i]
                   ELSE IF i > 1 /\ IsSpace(s[i - 1]) THEN "" ELSE " "]
  IN SelectSeq(marked, LAMBDA c : c # "")

\* s.slice(0, n) without the cut.
sliceNot(s, n) == s

\* s.slice(0, n)
slice(s, n) == SubSeq(s, 1, IF Len(s) < n THEN Len(s) ELSE n)

Budget == 140

\* makeSummary(content): server.js trims and then collapses, part_004
\* collapses and then trims.
makeSummary(v, content) ==
  LET txt == IF v = "v3" THEN trim(collapse(content)) ELSE collapse(trim(content))
  IN IF txt = <<>> THEN <<>>
     ELSE IF Len(txt) > Budget THEN slice(txt, Budget) \o <<".", ".", ".">>
     ELSE txt

(***************************************************************************)
(* splitByTaskType                                                         *)
(***************************************************************************)
\* The literal of the split pattern.
TaskType == <<"T", "a", "s", "k", " ", "t", "y", "p", "e", ":">>

Untitled == <<"U", "n", "t", "i", "t", "l", "e", "d">>

\* \s* from position i: the first position that holds no white space.
skipSpace(s, i) ==
  CHOOSE j \in i..(Len(s) + 1) :
    /\ \A k \in i..(j - 1) : IsSpace(s[k])
    /\ j = Len(s) + 1 \/ ~IsSpace(s[j])

\* \d+ from position i (i itself when no digit is there).
skipDigits(s, i) ==
  CHOOSE j \in i..(Len(s) + 1) :
    /\ \A k \in i..(j - 1) : IsDigit(s[k])
    /\ j = Len(s) + 1 \/ ~IsDigit(s[j])

\* "Task type:" at position i, under the i flag.
literalAt(s, i) ==
  /\ i + Len(TaskType) - 1 <= Len(s)
  /\ \A k \in 1..Len(TaskType) : UpperChar(s[i + k - 1]) = UpperChar(TaskType[k])

\* /(?:^|\n)\s*(?:\d+\.\s*)?Task type:\s*/i tried at position q: the position
\* after the match, 0 when there is none.  ^ is the start of the text only
\* (no m flag); \s takes line breaks as well as blanks.
markerEnd(s, q) ==
  IF ~(q = 1 \/ s[q] = "\n") THEN 0
  ELSE LET j == skipSpace(s, q)
           d == skipDigits(s, j)
           n == IF d > j /\ d <= Len(s) /\ s[d] = "." THEN skipSpace(s, d + 1) ELSE j
       IN  IF literalAt(s, n) THEN skipSpace(s, n + Len(TaskType)) ELSE 0

\* String.prototype.split(pattern): p starts the pending part, q is the
\* position the pattern is tried at.
RECURSIVE splitFrom(_, _, _)
splitFrom(s, p, q) ==
  IF q > Len(s) THEN <<SubSeq(s, p, Len(s))>>
  ELSE LET e == markerEnd(s, q)
       IN  IF e # 0 THEN <<SubSeq(s, p, q - 1)>> \o splitFrom(s, e, e)
           ELSE splitFrom(s, p, q + 1)

\* split("\n")
RECURSIVE splitLines(_, _, _)
splitLines(s, p, q) ==
  IF q > Len(s) THEN <<SubSeq(s, p, Len(s))>>
  ELSE IF s[q] = "\n" THEN <<SubSeq(s, p, q - 1)>> \o splitLines(s, q + 1, q + 1)
  ELSE splitLines(s, p, q + 1)

\* join("\n")
RECURSIVE join(_)
join(lines) ==
  IF lines = <<>> THEN <<>>
  ELSE IF Len(lines) = 1 THEN lines[1]
  ELSE lines[1] \o <<"\n">> \o join(Tail(lines))

\* replace(/\.$/, "")
dropDot(s) ==
  IF s # <<>> /\ s[Len(s)] = "." THEN SubSeq(s, 1, Len(s) - 1) ELSE s

orUntitledNot(s) == s

\* x || "Untitled"
orUntitled(s) == IF s = <<>> THEN Untitled ELSE s

\* The section made from one block.
section(v, block) ==
  IF v = "v3"
  THEN LET lines == splitLines(trim(block), 1, 1)
       IN  [title |-> orUntitled(trim(lines[1])),
            content |-> trim(join(Tail(lines)))]
  ELSE LET lines == [i \in DOMAIN splitLines(block, 1, 1) |->
                       trim(splitLines(block, 1, 1)[i])]
       IN  [title |-> trim(dropDot(orUntitled(lines[1]))),
            content |-> trim(join(Tail(lines)))]

splitByTaskType(v, text) ==
  IF v = "v3"
  THEN LET parts == splitFrom(text, 1, 1)
       IN  [i \in 1..(Len(parts) - 1) |-> section(v, parts[i + 1])]
  ELSE LET raw == trim(text)
           parts == IF raw = <<>> THEN <<>> ELSE Tail(splitFrom(raw, 1, 1))
           blocks == SelectSeq([i \in DOMAIN parts |-> trim(parts[i])],
                               LAMBDA b : b # <<>>)
       IN  [i \in DOMAIN blocks |-> section(v, blocks[i])]

(***************************************************************************)
(* Article documents and the store.  A collection is a multiset of         *)
(* documents; the sequence lists it in the order of the articleNumber      *)
(* index, so that one collection has one representation.                   *)
(***************************************************************************)
Variants == {"v1", "v2", "v3"}

Statuses == {"published", "draft"}

\* A collection whose articleNumber index is not unique: nothing is rejected.
uniqueIndexOff(s, id) == FALSE

\* Does the unique index on articleNumber reject a document with this id?
uniqueIndex(s, id) == \E i \in 1..Len(s) : s[i].articleNumber = id

\* Schema validation run by create / insertMany: articleNumber is required in
\* every revision, title is required in v1 and v2 (a required string must be
\* non-empty).
validate(v, doc) ==
  /\ doc.articleNumber # <<>>
  /\ (v \in {"v1", "v2"} => doc.title # <<>>)

\* The collection s with doc added.
put(s, doc) ==
  LET before == {i \in 1..Len(s) : ~StrLess(doc.articleNumber, s[i].articleNumber)}
      k == Cardinality(before)
  IN SubSeq(s, 1, k) \o <<doc>> \o SubSeq(s, k + 1, Len(s))

\* Article.create(doc)
create(v, s, doc) ==
  IF ~validate(v, doc) THEN [store |-> s, err |-> "ValidationError", inserted |-> 0]
  ELSE IF uniqueIndex(s, doc.articleNumber)
       THEN [store |-> s, err |-> "E11000", inserted |-> 0]
       ELSE [store |-> put(s, doc), err |-> "none", inserted |-> 1]

\* The driver's insertMany on already validated documents.  ordered: stop at
\* the first write error; unordered: attempt every document.  Any write error
\* rejects the call once the attempts are over.
RECURSIVE bulkWrite(_, _, _, _)
bulkWrite(s, docs, ordered, acc) ==
  IF docs = <<>> THEN acc
  ELSE IF uniqueIndex(acc.store, Head(docs).articleNumber)
       THEN IF ordered THEN [acc EXCEPT !.err = "E11000"]
            ELSE bulkWrite(s, Tail(docs), ordered, [acc EXCEPT !.err = "E11000"])
       ELSE bulkWrite(s, Tail(docs), ordered,
                      [acc EXCEPT !.store = put(@, Head(docs)),
                                  !.inserted = @ + 1])

\* Article.insertMany(docs, { ordered }): mongoose validates first; ordered
\* rejects on the first invalid document before writing, unordered drops the
\* invalid documents and writes the rest.
insertMany(v, s, docs, ordered) ==
  LET valid == SelectSeq(docs, LAMBDA d : validate(v, d))
      start == [store |-> s, err |-> "none", inserted |-> 0]
  IN IF ordered /\ valid # docs
     THEN [start EXCEPT !.err = "ValidationError"]
     ELSE bulkWrite(s, valid, ordered, start)

\* A lookup that answers with the first document whatever the filter.
findOneAny(s, id) == IF s = <<>> THEN 0 ELSE 1

\* Index of the first document with this articleNumber, 0 when there is none.
findOne(s, id) ==
  LET hits == {i \in 1..Len(s) : s[i].articleNumber = id}
  IN IF hits = {} THEN 0 ELSE CHOOSE i \in hits : \A j \in hits : i <= j

removeAt(s, i) == SubSeq(s, 1, i - 1) \o SubSeq(s, i + 1, Len(s))

\* { $set: upd } applied to a document; upd.fields names the fields present.
\* The timestamps option adds updatedAt to every update.
applySet(doc, upd, now) ==
  [doc EXCEPT
     !.articleNumber = IF "articleNumber" \in upd.fields THEN upd.articleNumber ELSE @,
     !.title = IF "title" \in upd.fields THEN upd.title ELSE @,
     !.status = IF "status" \in upd.fields THEN upd.status ELSE @,
     !.updatedAt = now]

\* Article.findOneAndUpdate({ articleNumber: id }, { $set: upd }, { new: true })
findOneAndUpdate(s, id, upd, now) ==
  LET i == findOne(s, id)
  IN IF i = 0 THEN [store |-> s, err |-> "none", found |-> FALSE]
     ELSE LET doc == applySet(s[i], upd, now)
          IN IF doc.articleNumber # s[i].articleNumber
                /\ uniqueIndex(removeAt(s, i), doc.articleNumber)
             THEN [store |-> s, err |-> "E11000", found |-> TRUE]
             ELSE [store |-> put(removeAt(s, i), doc), err |-> "none", found |-> TRUE]

\* Article.findOneAndDelete({ articleNumber: id })
findOneAndDelete(s, id) ==
  LET i == findOne(s, id)
  IN IF i = 0 THEN [store |-> s, found |-> FALSE]
     ELSE [store |-> removeAt(s, i), found |-> TRUE]

\* The greatest articleNumber in the store's string order:
\* Article.findOne().sort({ articleNumber: -1 })
lastArticle(s) ==
  CHOOSE i \in 1..Len(s) :
    \A j \in 1..Len(s) : ~StrLess(s[i].articleNumber, s[j].articleNumber)

\* getNextKB(): the read of the store and the arithmetic on what it read.
getNextKB(s) ==
  IF s = <<>> THEN fmtId(KBPrefix, 1001)
  ELSE LET num == parseInt(replaceKB(s[lastArticle(s)].articleNumber))
       IN fmtId(KBPrefix, IF num = NaN THEN NaN ELSE num + 1)

(***************************************************************************)
(* Request inputs                                                          *)
(***************************************************************************)
\* Caller-supplied articleNumber values (<<>>: the field is missing).
RawIds == {<<>>, fmtId(KBPrefix, 1001), fmtId(kbLower, 1001) \o <<" ">>}

\* Caller-supplied titles (<<>>: missing).
RawTitles == {<<>>, <<"A">>}

\* Caller-supplied status (<<>>: missing).
RawStatuses == {"", "draft"}

\* Bodies of create requests (summary and content missing).
Bodies ==
  [articleNumber : RawIds, title : RawTitles, summary : {<<>>}, content : {<<>>},
   status : RawStatuses]

\* Caller-supplied startNumber (0: missing) and kbPrefix (<<>>: missing).
StartNumbers == {0, 7002}

Prefixes == {<<>>, kbLower}

\* Values of Date.now() seen by single-mode uploads.
NowValues == {9001, 9002}

\* Values of the clock that stamps updatedAt.
Clock == {1}

\* Update payloads: which fields the body carries, and their values.
Payloads ==
  [fields : {{"articleNumber"}, {"status", "title"}},
   articleNumber : {fmtId(KBPrefix, 1002)},
   title : {<<"B">>},
   status : {"draft"}]

\* Items of a bulk request.
BulkItems ==
  [articleNumber : {fmtId(KBPrefix, 1001), fmtId(kbLower, 1001), fmtId(KBPrefix, 1002)},
   title : {<<"A">>},
   summary : {<<>>},
   content : {<<>>},
   status : {""}]

\* Sequences over S of length lo..hi.
SeqsOf(S, lo, hi) == UNION {[1..n -> S] : n \in lo..hi}

\* The sections splitByTaskType returns for a request text: n sections.
sectionsOf(n) == [i \in 1..n |-> [title |-> <<"A">>, content |-> <<"a">>]]

\* if (!sections.length) with the test dropped.
noSectionsNever(n) == FALSE

\* if (!sections.length)
noSections(n) == n = 0

(***************************************************************************)
(* State                                                                   *)
(***************************************************************************)
VARIABLES
  variant,   \* the revision of the server that runs
  store,     \* the articles collection
  req,       \* per request slot: the handler's position and local variables
  resp,      \* the last response sent (code 0: the handler threw outside
             \* any try/catch and sent nothing), with the title, summary and
             \* content of the request it answers and the inputs (file, text)
             \* that request carried
  issued,    \* the identifiers getNextKB returned, in order (history)
  files,     \* number of temporary files in uploads/
  call,      \* a helper applied to an argument, and again to its result
  users,     \* the users collection (a user's _id is its position)
  flight     \* per request slot: the position and local variables of a
             \* handler of the user and admin routes

vars == <<variant, store, req, resp, issued, files, call, users, flight>>

Idle ==
  [pc |-> "idle", kb |-> <<>>, title |-> <<>>, summary |-> <<>>, content |-> <<>>,
   status |-> "", start |-> 0, num |-> 0, n |-> 0, made |-> 0, ids |-> <<>>]

NoResp ==
  [op |-> "none", code |-> 0, kb |-> <<>>, n |-> 0, created |-> 0,
   added |-> 0, prefix |-> <<>>, start |-> 0, ids |-> <<>>, items |-> <<>>,
   body |-> <<>>, given |-> {}, user |-> ""]

Resp(op, code, kb) == [NoResp EXCEPT !.op = op, !.code = code, !.kb = kb]

Grounded == [pc |-> "idle", email |-> "", valid |-> FALSE, uid |-> 0, dept |-> ""]

NoCall == [arg |-> <<>>, out |-> <<>>, again |-> <<>>, step |-> 0]

Init ==
  /\ variant \in Variants
  /\ store = <<>>
  /\ req = [r \in Req |-> Idle]
  /\ resp = NoResp
  /\ issued = <<>>
  /\ files = 0
  /\ users = <<>>
  /\ flight = [r \in Req |-> Grounded]
  /\ call = NoCall

\* What a response records of the body it answers.
sent(b) == [title |-> b.title, summary |-> b.summary, content |-> b.content]

\* status: status || "published"
orPublished(st) == IF st = "" THEN "published" ELSE st

\* Request slots are interchangeable: a new request takes the lowest free one.
free(r) == req[r].pc = "idle" /\ \A q \in Req : q < r => req[q].pc # "idle"

\* A section of an import or of a split upload as a document.
sectionDoc(v, id, sec, now) ==
  [articleNumber |-> id, title |-> sec.title, summary |-> makeSummary(v, sec.content),
   content |-> sec.content, status |-> "published", updatedAt |-> now]

\* The document of a single-mode upload (file name and text abbreviated).
fileDoc(v, id, now) ==
  [articleNumber |-> id, title |-> <<"A">>, summary |-> makeSummary(v, <<"a">>),
   content |-> <<"a">>, status |-> "published", updatedAt |-> now]

(***************************************************************************)
(* v1: src/server.js 1-209                                                 *)
(***************************************************************************)
\* The document create and bulk build from a body.
v1Doc(b, now) ==
  [articleNumber |-> normalizeKB(b.articleNumber), title |-> trim(b.title),
   summary |-> b.summary, content |-> b.content,
   status |-> orPublished(b.status), updatedAt |-> now]

\* POST /api/kb/article
V1Create(b, now) ==
  /\ variant = "v1"
  /\ Len(store) < MaxStore
  /\ UNCHANGED <<variant, users, flight, req, issued, files, call>>
  /\ IF b.articleNumber = <<>> \/ b.title = <<>>
     THEN /\ resp' = [Resp("create", 400, normalizeKB(b.articleNumber))
                        EXCEPT !.body = <<sent(b)>>]
          /\ UNCHANGED store
     ELSE LET doc == v1Doc(b, now)
              r == create("v1", store, doc)
          IN /\ store' = r.store
             /\ resp' = [Resp("create", IF r.err = "none" THEN 200 ELSE 500,
                              doc.articleNumber)
                           EXCEPT !.added = r.inserted, !.body = <<sent(b)>>]

\* POST /api/kb/articles/bulk
V1Bulk(items, now) ==
  /\ variant = "v1"
  /\ Len(store) + Len(items) <= MaxStore
  /\ UNCHANGED <<variant, users, flight, req, issued, files, call>>
  /\ IF items = <<>>
     THEN /\ resp' = Resp("bulk", 400, <<>>)
          /\ UNCHANGED store
     ELSE LET docs == [i \in 1..Len(items) |-> v1Doc(items[i], now)]
              r == insertMany("v1", store, docs, FALSE)
          IN /\ store' = r.store
             /\ resp' = [Resp("bulk", IF r.err = "none" THEN 200 ELSE 500, <<>>)
                           EXCEPT !.n = Len(items),
                                  !.created = IF r.err = "none" THEN r.inserted ELSE 0,
                                  !.added = r.inserted,
                                  !.ids = [i \in 1..Len(docs) |-> docs[i].articleNumber],
                                  !.body = [i \in 1..Len(items) |-> sent(items[i])]]

\* The two demo articles of the seed handler (texts abbreviated).
demo(now) ==
  <<[articleNumber |-> fmtId(KBPrefix, 1001), title |-> <<"A">>, summary |-> <<"s">>,
     content |-> <<"a">>, status |-> "published", updatedAt |-> now],
    [articleNumber |-> fmtId(KBPrefix, 1002), title |-> <<"B">>, summary |-> <<"s">>,
     content |-> <<"a">>, status |-> "published", updatedAt |-> now]>>

\* POST /api/kb/seed, up to the answer of countDocuments()
SeedCount(r) ==
  /\ variant \in {"v1", "v2"}
  /\ free(r)
  /\ UNCHANGED <<variant, users, flight, store, issued, files, call>>
  /\ IF Len(store) > 0
     THEN /\ resp' = Resp("seed", 200, <<>>)
          /\ UNCHANGED req
     ELSE /\ req' = [req EXCEPT ![r] = [Idle EXCEPT !.pc = "seed"]]
          /\ UNCHANGED resp

\* POST /api/kb/seed, from insertMany(demo) on
SeedInsert(r, now) ==
  /\ req[r].pc = "seed"
  /\ Len(insertMany(variant, store, demo(now), TRUE).store) <= MaxStore
  /\ LET res == insertMany(variant, store, demo(now), TRUE)
     IN /\ store' = res.store
        /\ resp' = [Resp("seed", IF res.err = "none" THEN 200 ELSE 500, <<>>)
                      EXCEPT !.n = Len(demo(now)), !.added = res.inserted]
  /\ req' = [req EXCEPT ![r] = Idle]
  /\ UNCHANGED <<variant, users, flight, issued, files, call>>

(***************************************************************************)
(* Search and get (all revisions)                                          *)
(***************************************************************************)
\* new RegExp(q, "i"): a SyntaxError when a quantifier has nothing to repeat.
\* Of the regular-expression operators the queries carry "+" only.
regexOK(q) == \A i \in 1..Len(q) : q[i] = "+" => (i > 1 /\ q[i - 1] # "+")

\* Does the pattern p, from its position k on, match id from position i on?
RECURSIVE matchAt(_, _, _, _)
matchAt(id, i, p, k) ==
  IF k > Len(p) THEN TRUE
  ELSE IF i > Len(id) \/ UpperChar(id[i]) # UpperChar(p[k]) THEN FALSE
  ELSE IF k < Len(p) /\ p[k + 1] = "+"
       THEN matchAt(id, i + 1, p, k + 2) \/ matchAt(id, i + 1, p, k)
       ELSE matchAt(id, i + 1, p, k + 1)

\* new RegExp(q, "i").test(id)
regexTest(id, q) == \E i \in 1..(Len(id) + 1) : matchAt(id, i, q, 1)

\* The text index splits a string into words at white space and punctuation.
IsDelim(c) == IsSpace(c) \/ c \in {"+", "-", "."}

RECURSIVE words(_)
words(s) ==
  IF s = <<>> THEN {}
  ELSE IF IsDelim(Head(s)) THEN words(Tail(s))
  ELSE LET ends == {i \in 1..Len(s) : IsDelim(s[i])}
           n == IF ends = {} THEN Len(s) + 1
                ELSE CHOOSE i \in ends : \A j \in ends : i <= j
       IN {toUpperCase(SubSeq(s, 1, n - 1))} \cup words(SubSeq(s, n, Len(s)))

\* { $text: { $search: q } } on the text index over title, summary and
\* content (single letters stand for words; stemming is left out).
textMatch(doc, q) ==
  words(q) \cap (words(doc.title) \cup words(doc.summary) \cup words(doc.content)) # {}

\* { $meta: "textScore" }: positive for a text match, none without.
textScore(doc, q) == IF textMatch(doc, q) THEN 1 ELSE 0

limitOf(v) == IF v = "v1" THEN 20 ELSE 50

\* .sort({ score: { $meta: "textScore" }, updatedAt: -1 }) in server.js; no
\* sort in part_004.  Is seq an order the query may return its matches in?
sorted(v, seq, q) ==
  \/ v = "v3"
  \/ \A i, j \in 1..Len(seq) :
       i < j => \/ textScore(seq[i], q) > textScore(seq[j], q)
                \/ /\ textScore(seq[i], q) = textScore(seq[j], q)
                   /\ seq[i].updatedAt >= seq[j].updatedAt

Perms(n) == {p \in [1..n -> 1..n] : \A i, j \in 1..n : i # j => p[i] # p[j]}

\* The sequences a query with these matches may return: every order the sort
\* allows, cut at the limit.
results(v, hits, q) ==
  LET orders == {[i \in 1..Len(hits) |-> hits[p[i]]] : p \in Perms(Len(hits))}
  IN {slice(o, limitOf(v)) : o \in {x \in orders : sorted(v, x, q)}}

\* The same query without the status condition.
findAnyStatus(v, s, q) ==
  results(v, SelectSeq(s, LAMBDA d : regexTest(d.articleNumber, q) \/ textMatch(d, q)), q)

\* Article.find({ status: "published", $or: [ id regex, $text ] })
\*   .sort(..).limit(..): the set of sequences it may return.
find(v, s, q) ==
  results(v, SelectSeq(s, LAMBDA d :
                 /\ d.status = "published"
                 /\ (regexTest(d.articleNumber, q) \/ textMatch(d, q))), q)

Queries == {<<" ">>, <<"a">>, <<"k", "b", "-", "1">>}

\* if (!q) with the test dropped.
isBlankNever(q) == FALSE

\* if (!q)
isBlank(q) == q = <<>>

\* GET /api/kb/search
Search(raw) ==
  /\ UNCHANGED <<variant, users, flight, store, req, issued, files, call>>
  /\ LET q == trim(raw)
     IN IF isBlank(q)
        THEN resp' = Resp("search", 200, raw)
        ELSE IF ~regexOK(q)
        THEN resp' = Resp("search", IF variant = "v3" THEN 0 ELSE 500, raw)
        ELSE \E items \in find(variant, store, q) :
               resp' = [Resp("search", 200, raw) EXCEPT !.items = items]

\* GET /api/kb/article/:articleNumber
Get(id) ==
  /\ UNCHANGED <<variant, users, flight, store, req, issued, files, call>>
  /\ LET key == IF variant = "v3" THEN id ELSE normalizeKB(id)
         i == findOne(store, key)
     IN resp' = Resp("get",
                     IF i # 0 /\ store[i].status = "published" THEN 200 ELSE 404,
                     key)

(***************************************************************************)
(* v2: src/server.js 211-637                                               *)
(***************************************************************************)
\* The document create and bulk build from a body.
v2Doc(b, now) ==
  [articleNumber |-> normalizeKB(b.articleNumber), title |-> trim(b.title),
   summary |-> IF b.summary # <<>> THEN trim(b.summary) ELSE makeSummary("v2", b.content),
   content |-> b.content,
   status |-> orPublished(b.status), updatedAt |-> now]

\* POST /api/kb/article
V2Create(b, now) ==
  /\ variant = "v2"
  /\ Len(store) < MaxStore
  /\ UNCHANGED <<variant, users, flight, req, issued, files, call>>
  /\ LET num == normalizeKB(b.articleNumber)
     IN IF num = <<>> \/ b.title = <<>>
        THEN /\ resp' = [Resp("create", 400, num) EXCEPT !.body = <<sent(b)>>]
             /\ UNCHANGED store
        ELSE LET r == create("v2", store, v2Doc(b, now))
             IN /\ store' = r.store
                /\ resp' = [Resp("create",
                                 CASE r.err = "none" -> 201
                                   [] r.err = "E11000" -> 409
                                   [] OTHER -> 500,
                                 num)
                              EXCEPT !.added = r.inserted, !.body = <<sent(b)>>]

\* delete updates.articleNumber
stripId(upd) == [upd EXCEPT !.fields = @ \ {"articleNumber"}]

\* PUT /api/kb/article/:articleNumber
V2Update(id, upd, now) ==
  /\ variant = "v2"
  /\ UNCHANGED <<variant, users, flight, req, issued, files, call>>
  /\ LET r == findOneAndUpdate(store, normalizeKB(id), stripId(upd), now)
     IN /\ store' = r.store
        /\ resp' = Resp("update",
                        IF r.err # "none" THEN 500
                        ELSE IF r.found THEN 200 ELSE 404,
                        normalizeKB(id))

\* DELETE /api/kb/article/:articleNumber
V2Delete(id) ==
  /\ variant = "v2"
  /\ UNCHANGED <<variant, users, flight, req, issued, files, call>>
  /\ LET r == findOneAndDelete(store, normalizeKB(id))
     IN /\ store' = r.store
        /\ resp' = Resp("delete", IF r.found THEN 200 ELSE 404, normalizeKB(id))

\* POST /api/kb/bulk
V2Bulk(items, now) ==
  /\ variant = "v2"
  /\ Len(store) + Len(items) <= MaxStore
  /\ UNCHANGED <<variant, users, flight, req, issued, files, call>>
  /\ IF items = <<>>
     THEN /\ resp' = Resp("bulk", 400, <<>>)
          /\ UNCHANGED store
     ELSE LET docs == [i \in 1..Len(items) |-> v2Doc(items[i], now)]
              r == insertMany("v2", store, docs, FALSE)
          IN /\ store' = r.store
             /\ resp' = [Resp("bulk", IF r.err = "none" THEN 200 ELSE 500, <<>>)
                           EXCEPT !.n = Len(items),
                                  !.created = IF r.err = "none" THEN r.inserted ELSE 0,
                                  !.added = r.inserted,
                                  !.ids = [i \in 1..Len(docs) |-> docs[i].articleNumber],
                                  !.body = [i \in 1..Len(items) |-> sent(items[i])]]

\* The value of the batch-local variable num when section i is numbered
\* (num++ once per section, starting from start).
cursor(start, i) == IF start = NaN THEN NaN ELSE start + (i - 1)

\* sections.map(s => normalizeKB(`${prefix}${num++}`)) for n sections
importIds(prefix, start, n) ==
  [i \in 1..n |-> normalizeKB(fmtId(prefix, cursor(start, i)))]

sectionDocs(v, ids, now) ==
  [i \in 1..Len(ids) |-> sectionDoc(v, ids[i], sectionsOf(Len(ids))[i], now)]

\* POST /api/kb/import-text (one store call: insertMany, unordered)
V2ImportText(hasText, startNumber, kbPrefix, n, now) ==
  /\ variant = "v2"
  /\ Len(store) + n <= MaxStore
  /\ UNCHANGED <<variant, users, flight, req, issued, files, call>>
  /\ IF ~hasText \/ noSections(n)
     THEN /\ resp' = [Resp("import", 400, <<>>)
                        EXCEPT !.given = IF hasText THEN {"text"} ELSE {}]
          /\ UNCHANGED store
     ELSE LET num == IF startNumber = 0 THEN 7001 ELSE startNumber
              prefix == IF kbPrefix = <<>> THEN KBPrefix ELSE kbPrefix
              ids == importIds(prefix, num, n)
              r == insertMany("v2", store, sectionDocs("v2", ids, now), FALSE)
          IN /\ store' = r.store
             \* (the answer reads inserted[0], which throws on an empty result)
             /\ resp' = [Resp("import",
                              IF r.err = "none" /\ r.inserted > 0 THEN 200 ELSE 500,
                              fmtId(prefix, num))
                           EXCEPT !.n = n,
                                  !.created = IF r.err = "none" THEN r.inserted ELSE 0,
                                  !.added = r.inserted,
                                  !.prefix = prefix, !.start = num,
                                  !.ids = ids, !.given = {"text"}]

\* POST /api/kb/upload, up to the first store call.  extract: what the
\* converter did with the file ("text", "blank", "throws").  multer has
\* written the temporary file when the handler starts; fs.unlinkSync follows
\* the conversion.
V2Upload(r, hasFile, extract, mode, now, startNumber, n, at) ==
  /\ variant = "v2"
  /\ free(r)
  /\ Len(store) < MaxStore
  /\ (hasFile /\ extract = "throws") => files < MaxFiles
  /\ files' = IF hasFile /\ extract = "throws" THEN files + 1 ELSE files
  /\ UNCHANGED <<variant, users, flight, issued, call>>
  /\ IF ~hasFile \/ extract = "blank"
     THEN /\ resp' = [Resp("upload", 400, <<>>)
                        EXCEPT !.given = IF hasFile THEN {"file"} ELSE {}]
          /\ UNCHANGED <<store, req>>
     ELSE IF extract = "throws"
     THEN /\ resp' = [Resp("upload", 500, <<>>) EXCEPT !.given = {"file"}]
          /\ UNCHANGED <<store, req>>
     ELSE IF mode = "single"
     THEN LET kb == fmtId(KBPrefix, now)
              res == create("v2", store, fileDoc("v2", kb, at))
          IN /\ store' = res.store
             /\ resp' = [Resp("upload", IF res.err = "none" THEN 200 ELSE 500, kb)
                           EXCEPT !.n = 1, !.created = res.inserted,
                                  !.added = res.inserted, !.ids = <<kb>>,
                                  !.given = {"file"}]
             /\ UNCHANGED req
     ELSE IF noSections(n)
     THEN /\ resp' = [Resp("upload", 400, <<>>) EXCEPT !.given = {"file", "text"}]
          /\ UNCHANGED <<store, req>>
     ELSE LET num == IF startNumber = 0 THEN 8000 ELSE startNumber
          IN /\ req' = [req EXCEPT ![r] =
                          [Idle EXCEPT !.pc = "upload", !.start = num,
                                       !.num = num, !.n = n]]
             /\ UNCHANGED <<store, resp>>

\* A cursor that is read but not advanced.
incrementNot(num) == num

\* num++
increment(num) == IF num = NaN THEN NaN ELSE num + 1

\* A catch block that deletes the articles the request created so far.
catchUploadRollback(s, ids) ==
  SelectSeq(s, LAMBDA d : \A i \in 1..Len(ids) : ids[i] # d.articleNumber)

\* The catch block of upload: it logs and answers 500, the store stays as
\* the failed Article.create left it.
catchUpload(s, ids) == s

\* One iteration of `for (const sec of sections)` of a split-mode upload:
\* Article.create for the next section (v2 and v3 number it the same way).
UploadStep(r, now) ==
  /\ req[r].pc = "upload"
  /\ req[r].made < req[r].n
  /\ Len(store) < MaxStore
       \/ uniqueIndex(store, normalizeKB(fmtId(KBPrefix, req[r].num)))
  /\ UNCHANGED <<variant, users, flight, issued, files, call>>
  /\ LET kb == normalizeKB(fmtId(KBPrefix, req[r].num))
         res == create(variant, store,
                       sectionDoc(variant, kb, sectionsOf(req[r].n)[req[r].made + 1], now))
         ids == Append(req[r].ids, kb)
     IN /\ store' = IF res.err # "none" THEN catchUpload(res.store, req[r].ids)
                    ELSE res.store
        /\ IF res.err # "none"
           THEN /\ resp' = [Resp("upload", 500, fmtId(KBPrefix, req[r].start))
                              EXCEPT !.n = req[r].n, !.added = req[r].made,
                                     !.prefix = KBPrefix, !.start = req[r].start,
                                     !.ids = ids, !.given = {"file", "text"}]
                /\ req' = [req EXCEPT ![r] = Idle]
           ELSE IF req[r].made + 1 = req[r].n
           THEN /\ resp' = [Resp("upload", 200, fmtId(KBPrefix, req[r].start))
                              EXCEPT !.n = req[r].n, !.created = req[r].n,
                                     !.added = req[r].n,
                                     !.prefix = KBPrefix, !.start = req[r].start,
                                     !.ids = ids, !.given = {"file", "text"}]
                /\ req' = [req EXCEPT ![r] = Idle]
           ELSE /\ req' = [req EXCEPT ![r].num = increment(@),
                                      ![r].made = @ + 1,
                                      ![r].ids = ids]
                /\ UNCHANGED resp

(***************************************************************************)
(* v3: src/unnamed/part_004 1-316 (identifiers numbered by getNextKB)      *)
(***************************************************************************)
\* POST /api/kb/article, up to the answer of getNextKB()
V3CreateAlloc(r, b) ==
  /\ variant = "v3"
  /\ free(r)
  /\ UNCHANGED <<variant, users, flight, store, files, call>>
  /\ IF b.title = <<>>
     THEN /\ resp' = [Resp("create", 400, <<>>) EXCEPT !.body = <<sent(b)>>]
          /\ UNCHANGED <<req, issued>>
     ELSE /\ Len(issued) < MaxIssued
          /\ req' = [req EXCEPT ![r] =
                       [Idle EXCEPT !.pc = "create", !.kb = getNextKB(store),
                                    !.title = b.title, !.summary = b.summary,
                                    !.content = b.content, !.status = b.status]]
          /\ issued' = Append(issued, getNextKB(store))
          /\ UNCHANGED resp

\* The body a request in flight was sent with.
bodyOf(rq) ==
  [articleNumber |-> <<>>, title |-> rq.title, summary |-> rq.summary,
   content |-> rq.content, status |-> rq.status]

\* The document create builds from a body and the allocated identifier.
v3Doc(kb, b, now) ==
  [articleNumber |-> kb, title |-> b.title,
   summary |-> IF b.summary # <<>> THEN b.summary ELSE makeSummary("v3", b.content),
   content |-> b.content,
   status |-> orPublished(b.status), updatedAt |-> now]

\* POST /api/kb/article, from Article.create on
V3CreateInsert(r, now) ==
  /\ req[r].pc = "create"
  /\ Len(store) < MaxStore
  /\ LET res == create("v3", store, v3Doc(req[r].kb, bodyOf(req[r]), now))
     IN /\ store' = res.store
        /\ resp' = [Resp("create", IF res.err = "none" THEN 200 ELSE 500, req[r].kb)
                      EXCEPT !.added = res.inserted, !.body = <<sent(bodyOf(req[r]))>>]
  /\ req' = [req EXCEPT ![r] = Idle]
  /\ UNCHANGED <<variant, users, flight, issued, files, call>>

\* PUT /api/kb/article/:kb  ({ $set: req.body }, no try/catch)
V3Update(id, upd, now) ==
  /\ variant = "v3"
  /\ UNCHANGED <<variant, users, flight, req, issued, files, call>>
  /\ LET r == findOneAndUpdate(store, id, upd, now)
     IN /\ store' = r.store
        /\ resp' = Resp("update",
                        IF r.err # "none" THEN 0
                        ELSE IF r.found THEN 200 ELSE 404,
                        id)

\* DELETE /api/kb/article/:kb
V3Delete(id) ==
  /\ variant = "v3"
  /\ UNCHANGED <<variant, users, flight, req, issued, files, call>>
  /\ LET r == findOneAndDelete(store, id)
     IN /\ store' = r.store
        /\ resp' = Resp("delete", IF r.found THEN 200 ELSE 404, id)

\* POST /api/kb/import-text, up to the answer of getNextKB()
V3ImportAlloc(r, hasText, n) ==
  /\ variant = "v3"
  /\ free(r)
  /\ UNCHANGED <<variant, users, flight, store, files, call>>
  /\ IF ~hasText \/ noSections(n)
     THEN /\ resp' = [Resp("import", 400, <<>>)
                        EXCEPT !.given = IF hasText THEN {"text"} ELSE {}]
          /\ UNCHANGED <<req, issued>>
     ELSE /\ Len(issued) < MaxIssued
          /\ LET kb == getNextKB(store)
                 num == parseInt(replaceKB(kb))
             IN /\ req' = [req EXCEPT ![r] =
                             [Idle EXCEPT !.pc = "import", !.kb = kb, !.start = num,
                                          !.num = num, !.n = n]]
                /\ issued' = Append(issued, kb)
          /\ UNCHANGED resp

\* sections.map(sec => `KB-${num++}`) for n sections
v3Ids(start, n) == [i \in 1..n |-> fmtId(KBPrefix, cursor(start, i))]

\* POST /api/kb/import-text, from Article.insertMany(items) on (ordered, and
\* outside any try/catch)
V3ImportInsert(r, now) ==
  /\ req[r].pc = "import"
  /\ Len(store) + req[r].n <= MaxStore
  /\ LET ids == v3Ids(req[r].start, req[r].n)
         res == insertMany("v3", store, sectionDocs("v3", ids, now), TRUE)
     IN /\ store' = res.store
        /\ resp' = [Resp("import", IF res.err = "none" THEN 200 ELSE 0, req[r].kb)
                      EXCEPT !.n = req[r].n,
                             !.created = IF res.err = "none" THEN res.inserted ELSE 0,
                             !.added = res.inserted,
                             !.prefix = KBPrefix, !.start = req[r].start,
                             !.ids = ids, !.given = {"text"}]
  /\ req' = [req EXCEPT ![r] = Idle]
  /\ UNCHANGED <<variant, users, flight, issued, files, call>>

\* POST /api/kb/upload, up to the answer of getNextKB()
V3Upload(r, hasFile, extract, mode, n) ==
  /\ variant = "v3"
  /\ free(r)
  /\ (hasFile /\ extract = "throws") => files < MaxFiles
  /\ files' = IF hasFile /\ extract = "throws" THEN files + 1 ELSE files
  /\ UNCHANGED <<variant, users, flight, store, call>>
  /\ IF ~hasFile \/ extract = "blank"
     THEN /\ resp' = [Resp("upload", 400, <<>>)
                        EXCEPT !.given = IF hasFile THEN {"file"} ELSE {}]
          /\ UNCHANGED <<req, issued>>
     ELSE IF extract = "throws"
     THEN /\ resp' = [Resp("upload", 500, <<>>) EXCEPT !.given = {"file"}]
          /\ UNCHANGED <<req, issued>>
     ELSE IF mode # "single" /\ noSections(n)
     THEN /\ resp' = [Resp("upload", 400, <<>>) EXCEPT !.given = {"file", "text"}]
          /\ UNCHANGED <<req, issued>>
     ELSE /\ Len(issued) < MaxIssued
          /\ LET kb == getNextKB(store)
                 num == parseInt(replaceKB(kb))
             IN /\ req' = [req EXCEPT ![r] =
                             IF mode = "single"
                             THEN [Idle EXCEPT !.pc = "upload1", !.kb = kb, !.n = 1]
                             ELSE [Idle EXCEPT !.pc = "upload", !.kb = kb,
                                               !.start = num, !.num = num, !.n = n]]
                /\ issued' = Append(issued, kb)
          /\ UNCHANGED resp

\* POST /api/kb/upload in single mode, from Article.create on
V3UploadSingle(r, now) ==
  /\ req[r].pc = "upload1"
  /\ Len(store) < MaxStore
  /\ LET res == create("v3", store, fileDoc("v3", req[r].kb, now))
     IN /\ store' = res.store
        /\ resp' = [Resp("upload", IF res.err = "none" THEN 200 ELSE 500, req[r].kb)
                      EXCEPT !.n = 1, !.created = res.inserted,
                             !.added = res.inserted, !.ids = <<req[r].kb>>,
                             !.given = {"file"}]
  /\ req' = [req EXCEPT ![r] = Idle]
  /\ UNCHANGED <<variant, users, flight, issued, files, call>>

(***************************************************************************)
(* Specification: every handler, requests interleaved at their store calls *)
(***************************************************************************)
\* Upload requests: without a file; with a file the converter fails on or
\* finds no text in; single mode; split mode with n sections.
UploadRequests ==
  LET u(f, e, m, now, sn, n) ==
        [hasFile |-> f, extract |-> e, mode |-> m, now |-> now,
         startNumber |-> sn, n |-> n]
  IN {u(FALSE, "text", "single", 0, 0, 0)}
       \cup {u(TRUE, e, "single", 0, 0, 0) : e \in {"blank", "throws"}}
       \cup {u(TRUE, "text", "single", now, 0, 0) : now \in NowValues}
       \cup {u(TRUE, "text", "split", 0, sn, n) : sn \in StartNumbers, n \in 0..MaxSections}

\* Import-text requests: without text; with a text of n sections.
ImportRequests ==
  LET m(h, sn, p, n) == [hasText |-> h, startNumber |-> sn, kbPrefix |-> p, n |-> n]
  IN {m(FALSE, 0, <<>>, 0), m(TRUE, 0, <<>>, 0)}
       \cup {m(TRUE, sn, p, n) : sn \in StartNumbers, p \in Prefixes, n \in 1..MaxSections}

Next ==
  \/ \E b \in Bodies, now \in Clock : V1Create(b, now)
  \/ \E items \in SeqsOf(BulkItems, 0, MaxSections), now \in Clock : V1Bulk(items, now)
  \/ \E r \in Req : SeedCount(r)
  \/ \E r \in Req, now \in Clock : SeedInsert(r, now)
  \/ \E q \in Queries : Search(q)
  \/ \E b \in Bodies, now \in Clock : V2Create(b, now)
  \/ \E id \in RawIds \ {<<>>}, upd \in Payloads, now \in Clock : V2Update(id, upd, now)
  \/ \E id \in RawIds \ {<<>>} : V2Delete(id)
  \/ \E items \in SeqsOf(BulkItems, 0, MaxSections), now \in Clock : V2Bulk(items, now)
  \/ \E m \in ImportRequests, now \in Clock :
       V2ImportText(m.hasText, m.startNumber, m.kbPrefix, m.n, now)
  \/ \E r \in Req, u \in {i \in UploadRequests : i.extract # "throws"}, now \in Clock :
       V2Upload(r, u.hasFile, u.extract, u.mode, u.now, u.startNumber, u.n, now)
  \/ \E r \in Req, now \in Clock : UploadStep(r, now)
  \/ \E r \in Req, b \in {x \in Bodies : x.articleNumber = <<>>} : V3CreateAlloc(r, b)
  \/ \E r \in Req, now \in Clock : V3CreateInsert(r, now)
  \/ \E id \in RawIds \ {<<>>}, upd \in Payloads, now \in Clock : V3Update(id, upd, now)
  \/ \E id \in RawIds \ {<<>>} : V3Delete(id)
  \/ \E r \in Req, m \in {i \in ImportRequests : i.startNumber = 0 /\ i.kbPrefix = <<>>} :
       V3ImportAlloc(r, m.hasText, m.n)
  \/ \E r \in Req, now \in Clock : V3ImportInsert(r, now)
  \/ \E r \in Req, u \in {i \in UploadRequests : /\ i.startNumber = 0
                                                  /\ i.now \in {0, 9001}
                                                  /\ i.extract # "throws"} :
       V3Upload(r, u.hasFile, u.extract, u.mode, u.n)
  \/ \E r \in Req, now \in Clock : V3UploadSingle(r, now)

Spec == Init /\ [][Next]_vars

TypeOK ==
  /\ variant \in Variants
  /\ Len(store) <= MaxStore
  /\ \A r \in Req : req[r].pc \in {"idle", "seed", "create", "import", "upload", "upload1"}
  /\ Len(issued) <= MaxIssued
  /\ files \in 0..MaxFiles
  /\ call.step \in 0..2

(***************************************************************************)
(* Specification of search: one request at a time, articles with           *)
(* different titles and update times, queries with a quantifier            *)
(***************************************************************************)
kPlus == <<"K", "+">>

SearchBodies ==
  [articleNumber : {fmtId(KBPrefix, 1001), kPlus}, title : {<<"A">>, <<"B">>},
   summary : {<<>>}, content : {<<>>}, status : RawStatuses]

SearchQueries == {<<>>, <<" ">>, <<"a">>, <<"b">>, <<"k", "+">>, <<"+">>}

SearchClock == {1, 2}

\* The clock does not run backwards: the values a write may be stamped with.
ticks == {t \in SearchClock : \A i \in 1..Len(store) : store[i].updatedAt <= t}

SearchNext ==
  \/ \E b \in SearchBodies, now \in ticks : V1Create(b, now)
  \/ \E b \in SearchBodies, now \in ticks : V2Create(b, now)
  \/ \E b \in {x \in SearchBodies : x.articleNumber = kPlus} : V3CreateAlloc(1, b)
  \/ \E now \in ticks : V3CreateInsert(1, now)
  \/ \E q \in SearchQueries : Search(q)

SearchSpec == Init /\ [][SearchNext]_vars

(***************************************************************************)
(* Specification of the handlers one request at a time: bodies with and    *)
(* without title, summary and content, lookups of identifiers that are     *)
(* and are not stored, uploads the converter fails on                      *)
(***************************************************************************)
RawSummaries == {<<>>, <<" ", "s">>}

RawContents == {<<>>, <<"a", " ", " ", "a">>}

FieldBodies ==
  [articleNumber : {fmtId(KBPrefix, 1001)}, title : RawTitles,
   summary : RawSummaries, content : RawContents, status : {""}]

FieldItems ==
  [articleNumber : {fmtId(KBPrefix, 1002)}, title : {<<"A">>},
   summary : RawSummaries, content : RawContents, status : {""}]

FieldPayloads ==
  [fields : {{"title"}}, articleNumber : {<<>>}, title : {<<>>},
   status : {"draft"}]

FieldIds == {fmtId(KBPrefix, 1001), fmtId(KBPrefix, 1002)}

FieldImports == {m \in ImportRequests : m.startNumber = 0 /\ m.kbPrefix = <<>> /\ m.n <= 1}

FieldUploads == {u \in UploadRequests : u.startNumber = 0 /\ u.now \in {0, 9001} /\ u.n <= 1}

RequestNext ==
  \/ \E b \in FieldBodies, now \in Clock : V1Create(b, now)
  \/ \E items \in SeqsOf(FieldItems, 0, 1), now \in Clock : V1Bulk(items, now)
  \/ \E id \in FieldIds : Get(id)
  \/ \E b \in FieldBodies, now \in Clock : V2Create(b, now)
  \/ \E items \in SeqsOf(FieldItems, 0, 1), now \in Clock : V2Bulk(items, now)
  \/ \E id \in FieldIds, upd \in FieldPayloads, now \in Clock : V2Update(id, upd, now)
  \/ \E id \in FieldIds : V2Delete(id)
  \/ \E m \in FieldImports, now \in Clock :
       V2ImportText(m.hasText, m.startNumber, m.kbPrefix, m.n, now)
  \/ \E u \in FieldUploads, now \in Clock :
       V2Upload(1, u.hasFile, u.extract, u.mode, u.now, u.startNumber, u.n, now)
  \/ \E now \in Clock : UploadStep(1, now)
  \/ \E b \in FieldBodies : V3CreateAlloc(1, b)
  \/ \E now \in Clock : V3CreateInsert(1, now)
  \/ \E id \in FieldIds, upd \in FieldPayloads, now \in Clock : V3Update(id, upd, now)
  \/ \E id \in FieldIds : V3Delete(id)
  \/ \E m \in FieldImports : V3ImportAlloc(1, m.hasText, m.n)
  \/ \E now \in Clock : V3ImportInsert(1, now)
  \/ \E u \in FieldUploads : V3Upload(1, u.hasFile, u.extract, u.mode, u.n)
  \/ \E now \in Clock : V3UploadSingle(1, now)

RequestSpec == Init /\ [][RequestNext]_vars

(***************************************************************************)
(* Specification of makeSummary: the function applied to a content, and    *)
(* again to the summary it returned                                        *)
(***************************************************************************)
run(c, n) == [i \in 1..n |-> c]

\* Contents: white space, a word, a white-space run, a word, white space;
\* the words' lengths lie on both sides of the budget.
Contents ==
  {run(" ", l) \o run("a", a) \o run(g, gn) \o run("b", b) \o run(" ", t) :
     l \in {0, 2}, a \in {0, 1, Budget - 2, Budget - 1, Budget, Budget + 1},
     g \in {" ", "\n"}, gn \in 0..2, b \in {0, 1, 3}, t \in {0, 1}}

SummaryInit ==
  /\ variant \in {"v2", "v3"}
  /\ store = <<>>
  /\ req = [r \in Req |-> Idle]
  /\ resp = NoResp
  /\ issued = <<>>
  /\ files = 0
  /\ users = <<>>
  /\ flight = [r \in Req |-> Grounded]
  /\ call \in {[NoCall EXCEPT !.arg = c] : c \in Contents}

\* summary = makeSummary(content)
Summarize ==
  /\ call.step = 0
  /\ call' = [call EXCEPT !.out = makeSummary(variant, call.arg), !.step = 1]
  /\ UNCHANGED <<variant, users, flight, store, req, resp, issued, files>>

\* makeSummary(summary)
SummarizeAgain ==
  /\ call.step = 1
  /\ call' = [call EXCEPT !.again = makeSummary(variant, call.out), !.step = 2]
  /\ UNCHANGED <<variant, users, flight, store, req, resp, issued, files>>

SummaryNext == Summarize \/ SummarizeAgain

SummarySpec == SummaryInit /\ [][SummaryNext]_vars

(***************************************************************************)
(* Specification of splitByTaskType: the function applied to a text        *)
(***************************************************************************)
RECURSIVE concat(_)
concat(ps) == IF ps = <<>> THEN <<>> ELSE Head(ps) \o concat(Tail(ps))

taskLower == <<"t", "a", "s", "k", " ", "t", "y", "p", "e", ":">>

\* The pieces texts are made of: a marker in two spellings, a number, a
\* blank, a line break, words and a full stop.
Pieces ==
  {TaskType, taskLower, <<"1", ".">>, <<" ">>, <<"\n">>, <<"A">>, <<"b">>, <<".">>}

MaxPieces == 4

\* "Task type: A\nbody1\nTask type: B\nbody2" with one-letter words, and a
\* numbered marker after a preamble.
LongTexts ==
  {concat(<<TaskType, <<" ", "A", "\n", "b", "\n">>, TaskType, <<" ", "B", "\n", "b">>>>),
   concat(<<<<"b", "\n", " ", "1", ".", " ">>, taskLower, <<" ", "A", ".", "\n", " ", "b", " ", "\n", "b">>>>)}

Texts == {concat(ps) : ps \in SeqsOf(Pieces, 0, MaxPieces)} \cup LongTexts

SplitInit ==
  /\ variant \in {"v2", "v3"}
  /\ store = <<>>
  /\ req = [r \in Req |-> Idle]
  /\ resp = NoResp
  /\ issued = <<>>
  /\ files = 0
  /\ users = <<>>
  /\ flight = [r \in Req |-> Grounded]
  /\ call \in {[NoCall EXCEPT !.arg = t] : t \in Texts}

\* sections = splitByTaskType(text)
Split ==
  /\ call.step = 0
  /\ call' = [call EXCEPT !.out = splitByTaskType(variant, call.arg), !.step = 1]
  /\ UNCHANGED <<variant, users, flight, store, req, resp, issued, files>>

SplitNext == Split

SplitSpec == SplitInit /\ [][SplitNext]_vars

(***************************************************************************)
(* Specification of getNextKB over stores whose identifiers have different *)
(* digit counts: part_004 1-316, one request at a time                     *)
(***************************************************************************)
\* Identifiers a PUT body renumbers an article to.
AllocNumbers == {fmtId(KBPrefix, 9999), fmtId(KBPrefix, 10000)}

AllocIds == {fmtId(KBPrefix, 1001), fmtId(KBPrefix, 1002)} \cup AllocNumbers

AllocPayloads ==
  [fields : {{"articleNumber"}}, articleNumber : AllocNumbers,
   title : {<<>>}, status : {""}]

AllocBodies == {b \in Bodies : b.articleNumber = <<>> /\ b.status = ""}

AllocNext ==
  \/ \E b \in AllocBodies : V3CreateAlloc(1, b)
  \/ \E now \in Clock : V3CreateInsert(1, now)
  \/ \E n \in 1..MaxSections : V3ImportAlloc(1, TRUE, n)
  \/ \E now \in Clock : V3ImportInsert(1, now)
  \/ \E id \in AllocIds, upd \in AllocPayloads, now \in Clock : V3Update(id, upd, now)
  \/ \E id \in AllocIds : V3Delete(id)

AllocInit == Init /\ variant = "v3"

AllocSpec == AllocInit /\ [][AllocNext]_vars

(***************************************************************************)
(* User routes: src/routes/userRoutes.js (register with a verification     *)
(* mail, login, verify) and src/unnamed/part_006 (register, login)         *)
(***************************************************************************)
UserVariants == {"part_006", "userRoutes"}

Emails == {"a", "b"}

\* The document User.create stores: emailVerified false and a fresh
\* verificationToken; the schema defaults leave approved false and no
\* department.  accepted counts the verify requests answered 200 for the
\* user, approvers holds the departments of the admins whose approve request
\* set the approved flag (history).
newUser(email, token) ==
  [email |-> email, emailVerified |-> FALSE, verificationToken |-> token,
   approved |-> FALSE, department |-> "", accepted |-> 0, approvers |-> {}]

\* The unique index of UserSchema.email: a document with this email exists.
emailIndex(us, email) == \E i \in 1..Len(us) : us[i].email = email

findFirst(us, hits) == IF hits = {} THEN 0 ELSE CHOOSE i \in hits : \A j \in hits : i <= j

\* User.findOne({ email }): the user's position, 0 for null.
findByEmail(us, email) == findFirst(us, {i \in 1..Len(us) : us[i].email = email})

\* User.findOne({ verificationToken: token })
findByToken(us, token) ==
  findFirst(us, {i \in 1..Len(us) : us[i].verificationToken = token})

\* crypto.randomBytes(32).toString("hex"): a value no user holds yet.
randomBytes(us) == Len(us) + 1

freeSlot(r) == flight[r].pc = "idle" /\ \A q \in Req : q < r => flight[q].pc # "idle"

\* POST /register, up to the answer of User.findOne({ email }); valid: the
\* body carries a name and a password.
Register(r, email, valid) ==
  /\ variant \in UserVariants
  /\ freeSlot(r)
  /\ UNCHANGED <<variant, store, req, issued, files, call, users>>
  /\ IF findByEmail(users, email) # 0
     THEN /\ resp' = [Resp("register", 400, <<>>)
                        EXCEPT !.user = email,
                               !.given = IF valid THEN {"name", "password"} ELSE {}]
          /\ UNCHANGED flight
     ELSE /\ flight' = [flight EXCEPT ![r] =
                          [Grounded EXCEPT !.pc = "register", !.email = email,
                                           !.valid = valid]]
          /\ UNCHANGED resp

\* POST /register, from bcrypt.hash on: User.create, and in userRoutes.js
\* transporter.sendMail, which sends the mail or throws.
RegisterCreate(r, mail) ==
  /\ flight[r].pc = "register"
  /\ UNCHANGED <<variant, store, req, issued, files, call>>
  /\ flight' = [flight EXCEPT ![r] = Grounded]
  /\ LET e == flight[r].email
         thrown == ~flight[r].valid \/ emailIndex(users, e)
         code == IF thrown \/ (variant = "userRoutes" /\ mail = "throws")
                 THEN 500 ELSE 200
     IN /\ users' = IF thrown THEN users
                    ELSE Append(users, newUser(e, randomBytes(users)))
        /\ resp' = [Resp("register", code, <<>>)
                      EXCEPT !.user = e,
                             !.given = IF flight[r].valid THEN {"name", "password"}
                                       ELSE {}]

\* if (!user.emailVerified) return res.status(403) (userRoutes.js only)
verified(v, user) == v = "part_006" \/ user.emailVerified

\* POST /login; match: bcrypt.compare(password, user.password)
Login(email, match) ==
  /\ variant \in UserVariants
  /\ UNCHANGED <<variant, store, req, issued, files, call, users, flight>>
  /\ LET i == findByEmail(users, email)
         code == IF i = 0 THEN 400
                 ELSE IF ~verified(variant, users[i]) THEN 403
                 ELSE IF ~match THEN 400
                 ELSE 200
     IN resp' = [Resp("login", code, <<>>) EXCEPT !.user = email]

\* GET /verify/:token, up to the answer of User.findOne({ verificationToken })
VerifyFind(r, token) ==
  /\ variant = "userRoutes"
  /\ freeSlot(r)
  /\ UNCHANGED <<variant, store, req, issued, files, call, users>>
  /\ LET i == findByToken(users, token)
     IN IF i = 0
        THEN /\ resp' = Resp("verify", 400, <<>>)
             /\ UNCHANGED flight
        ELSE /\ flight' = [flight EXCEPT ![r] =
                             [Grounded EXCEPT !.pc = "verify", !.uid = i]]
             /\ UNCHANGED resp

\* GET /verify/:token, from user.emailVerified = true on: user.save()
VerifySave(r) ==
  /\ flight[r].pc = "verify"
  /\ UNCHANGED <<variant, store, req, issued, files, call>>
  /\ flight' = [flight EXCEPT ![r] = Grounded]
  /\ users' = [users EXCEPT ![flight[r].uid] =
                 [@ EXCEPT !.emailVerified = TRUE, !.verificationToken = 0,
                           !.accepted = @ + 1]]
  /\ resp' = [Resp("verify", 200, <<>>) EXCEPT !.user = users[flight[r].uid].email]

\* Tokens a verify request carries: the ones register made, and one more.
TokenValues == 1..(Cardinality(Emails) + 1)

UserInit ==
  /\ variant \in UserVariants
  /\ store = <<>>
  /\ req = [r \in Req |-> Idle]
  /\ resp = NoResp
  /\ issued = <<>>
  /\ files = 0
  /\ call = NoCall
  /\ users = <<>>
  /\ flight = [r \in Req |-> Grounded]

UserNext ==
  \/ \E r \in Req, email \in Emails, valid \in BOOLEAN : Register(r, email, valid)
  \/ \E r \in Req, mail \in {"sent", "throws"} : RegisterCreate(r, mail)
  \/ \E email \in Emails, match \in BOOLEAN : Login(email, match)
  \/ \E r \in Req, token \in TokenValues : VerifyFind(r, token)
  \/ \E r \in Req : VerifySave(r)

UserSpec == UserInit /\ [][UserNext]_vars

(***************************************************************************)
(* Admin routes, PUT /users/:id/approve: src/routes/adminRoutes.js 99-124  *)
(* (the admin's department is assigned), 273-300 and src/unnamed/part_005  *)
(* 78-95 (the user's department is checked), behind middleware/auth.js     *)
(***************************************************************************)
AdminVariants == {"autoAssign", "deptCheck", "part_005"}

\* What auth decodes from the Authorization header: no valid token, the
\* token of an admin of department X or Y, the token of the super admin.
Callers ==
  {[token |-> FALSE, role |-> "", department |-> ""],
   [token |-> TRUE, role |-> "admin", department |-> "X"],
   [token |-> TRUE, role |-> "admin", department |-> "Y"],
   [token |-> TRUE, role |-> "superadmin", department |-> ""]}

\* req.params.id: 0 is not an ObjectId (findById throws a CastError), an id
\* beyond the collection belongs to no user.
UserIds == 0..3

\* if (user.department !== req.user.department) return res.status(403)
sameDepartment(v, user, caller) ==
  v = "autoAssign" \/ user.department = caller.department

\* PUT /users/:id/approve, up to the answer of User.findById
Approve(r, caller, id) ==
  /\ variant \in AdminVariants
  /\ freeSlot(r)
  /\ UNCHANGED <<variant, store, req, issued, files, call, users>>
  /\ LET answer(code) ==
           /\ resp' = [Resp("approve", code, <<>>)
                         EXCEPT !.given = IF caller.token THEN {"token", caller.role}
                                          ELSE {}]
           /\ UNCHANGED flight
     IN IF ~caller.token THEN answer(401)
        ELSE IF caller.role # "admin" THEN answer(403)
        ELSE IF id = 0 THEN answer(IF variant = "part_005" THEN 0 ELSE 500)
        ELSE IF id > Len(users) THEN answer(404)
        ELSE IF ~sameDepartment(variant, users[id], caller) THEN answer(403)
        ELSE /\ flight' = [flight EXCEPT ![r] =
                             [Grounded EXCEPT !.pc = "approve", !.uid = id,
                                              !.dept = caller.department]]
             /\ UNCHANGED resp

\* PUT /users/:id/approve, from user.approved = true on: user.save() writes
\* the fields the handler assigned.
ApproveSave(r) ==
  /\ flight[r].pc = "approve"
  /\ UNCHANGED <<variant, store, req, issued, files, call>>
  /\ flight' = [flight EXCEPT ![r] = Grounded]
  /\ users' = [users EXCEPT ![flight[r].uid] =
                 [@ EXCEPT !.department = IF variant = "autoAssign" THEN flight[r].dept
                                          ELSE @,
                           !.approved = TRUE,
                           !.approvers = @ \cup {flight[r].dept}]]
  /\ resp' = [Resp("approve", 200, <<>>)
                EXCEPT !.user = users[flight[r].uid].email,
                       !.given = {"token", "admin"}]

\* The users the collection holds when the server starts: registered, not
\* approved, without a department or in department X.
StoredUsers ==
  {<<[newUser("a", 0) EXCEPT !.emailVerified = TRUE, !.department = d1],
     [newUser("b", 0) EXCEPT !.emailVerified = TRUE, !.department = d2]>> :
     d1 \in {"", "X"}, d2 \in {"", "X"}}

ApproveInit ==
  /\ variant \in AdminVariants
  /\ store = <<>>
  /\ req = [r \in Req |-> Idle]
  /\ resp = NoResp
  /\ issued = <<>>
  /\ files = 0
  /\ call = NoCall
  /\ users \in StoredUsers
  /\ flight = [r \in Req |-> Grounded]

ApproveNext ==
  \/ \E r \in Req, caller \in Callers, id \in UserIds : Approve(r, caller, id)
  \/ \E r \in Req : ApproveSave(r)

ApproveSpec == ApproveInit /\ [][ApproveNext]_vars

(***************************************************************************)
(* Properties                                                              *)
(***************************************************************************)
\* The number in an identifier, read the way getNextKB's callers read it.
idNum(id) == parseInt(replaceKB(id))

inStore(s, id) == \E i \in 1..Len(s) : s[i].articleNumber = id

\* Requests that hold an identifier returned by getNextKB and have not yet
\* written with it.
holders == {r \in Req : variant = "v3" /\ req[r].pc \in {"create", "import", "upload", "upload1"}}

\* C1: the identifiers returned to concurrent getNextKB callers are pairwise
\* distinct and form a contiguous run.
C1_ConcurrentAllocationsDistinct ==
  LET nums == {idNum(req[r].kb) : r \in holders}
  IN /\ Cardinality(nums) = Cardinality(holders)
     /\ \A x, y \in nums : x - y < Cardinality(holders)

\* C2: an allocation returns an identifier strictly greater than every
\* identifier allocated before it.  Stated for the allocations made while no
\* other request is in flight, so that a violation is not the race of C1.
C2_AllocationsStrictlyIncrease ==
  [][(Len(issued') = Len(issued) + 1 /\ \A r \in Req : req[r].pc = "idle")
       => \A i \in 1..Len(issued) : idNum(issued[i]) < idNum(issued'[Len(issued')])]_vars

\* C3: no two stored articles have the same articleNumber.
C3_UniqueIdentifiers ==
  \A i, j \in 1..Len(store) : i # j => store[i].articleNumber # store[j].articleNumber

\* C3 witness: the store holds two articles and the last request was a write
\* that the unique index rejected.
C3_Witness ==
  /\ Len(store) >= 2
  /\ resp.op \in {"create", "bulk", "import", "upload", "update"}
  /\ resp.code \in {0, 409, 500}
  /\ resp.kb # <<>> /\ inStore(store, resp.kb)

\* C4: a create request whose identifier is already stored is answered 409
\* and leaves the store unchanged.
C4_DuplicateCreateIs409 ==
  [][(resp' # resp /\ resp'.op = "create" /\ resp'.kb # <<>> /\ resp'.code # 400
        /\ inStore(store, resp'.kb))
       => (resp'.code = 409 /\ store' = store)]_vars

\* Number of items of a batch whose identifier is stored already or is that
\* of an earlier item of the batch.
collisions(s, ids) ==
  Cardinality({i \in 1..Len(ids) :
                 inStore(s, ids[i]) \/ \E j \in 1..(i - 1) : ids[j] = ids[i]})

\* C5: a bulk insert of k items with c collisions inserts k-c items and
\* answers with success and the count k-c.
C5_BulkReportsInsertedCount ==
  [][(resp' # resp /\ resp'.op = "bulk" /\ resp'.n > 0)
       => LET c == collisions(store, resp'.ids)
          IN /\ Len(store') = Len(store) + (resp'.n - c)
             /\ resp'.code = 200
             /\ resp'.created = resp'.n - c]_vars

\* The identifier of section i of the batch a response is about.
sectionId(rs, i) == normalizeKB(fmtId(rs.prefix, cursor(rs.start, i)))

\* C6: when an import-text or split-upload request is answered, every section
\* of the batch that was not inserted is one whose identifier collided.
C6_CollisionDoesNotAbortBatch ==
  [][(resp' # resp /\ resp'.op \in {"import", "upload"} /\ resp'.start # 0)
       => IF resp'.op = "import"
          THEN \A i \in 1..resp'.n :
                 ~inStore(store', sectionId(resp', i)) => inStore(store, sectionId(resp', i))
          ELSE \A i \in (resp'.added + 1)..resp'.n : inStore(store, sectionId(resp', i))]_vars

\* C7: an update request leaves the identifier of every stored article as it
\* was.
C7_UpdateKeepsIdentifier ==
  [][(resp' # resp /\ resp'.op = "update")
       => /\ Len(store') = Len(store)
          /\ \A i \in 1..Len(store) : inStore(store', store[i].articleNumber)]_vars

\* C8: an import-text request with n >= 1 sections creates n articles with n
\* distinct identifiers and reports created = n.
C8_ImportCreatesAllSections ==
  (resp.op = "import" /\ resp.n >= 1)
    => /\ resp.code = 200
       /\ resp.created = resp.n
       /\ resp.added = resp.n
       /\ \A i, j \in 1..Len(resp.ids) : i # j => resp.ids[i] # resp.ids[j]

\* C9 as stated: the identifiers a batch assigns are prefix+start,
\* prefix+(start+1), ... in section order.
C9_IdsArePrefixPlusCursor ==
  (variant = "v2" /\ resp.op \in {"import", "upload"} /\ resp.start # 0)
    => \A i \in 1..Len(resp.ids) : resp.ids[i] = fmtId(resp.prefix, resp.start + (i - 1))

\* C9 amended: the identifiers a batch assigns are the trimmed, upper-cased
\* prefix+start, prefix+(start+1), ... in section order, in the response and
\* while the batch is in flight next to other batches.
C9_IdsAreNormalizedPrefixPlusCursor ==
  variant = "v2" =>
    /\ (resp.op \in {"import", "upload"} /\ resp.start # 0)
         => \A i \in 1..Len(resp.ids) :
              resp.ids[i] = toUpperCase(trim(fmtId(resp.prefix, resp.start + (i - 1))))
    /\ \A r \in Req :
         req[r].pc = "upload"
           => /\ req[r].num = req[r].start + Len(req[r].ids)
              /\ \A i \in 1..Len(req[r].ids) :
                   req[r].ids[i] = fmtId(KBPrefix, req[r].start + (i - 1))

\* C9 witness: two split uploads in flight at once, with different cursors,
\* one of which has numbered a section.
C9_Witness ==
  /\ variant = "v2"
  /\ \E r1, r2 \in Req :
       /\ r1 # r2
       /\ req[r1].pc = "upload" /\ req[r2].pc = "upload"
       /\ req[r1].num # req[r2].num
       /\ Len(req[r1].ids) >= 1

\* C10: every article in a search response has status "published".
C10_SearchOnlyPublished ==
  resp.op = "search" => \A i \in 1..Len(resp.items) : resp.items[i].status = "published"

\* C10 witness: a search answered with an article while the store also holds
\* an unpublished article that the query matches.
C10_Witness ==
  /\ resp.op = "search" /\ Len(resp.items) >= 1
  /\ \E i \in 1..Len(store) :
       /\ store[i].status # "published"
       /\ (regexTest(store[i].articleNumber, trim(resp.kb)) \/ textMatch(store[i], trim(resp.kb)))

\* q occurs in id, letter case aside.
includes(id, q) ==
  \E i \in 1..(Len(id) - Len(q) + 1) :
    toUpperCase(SubSeq(id, i, i + Len(q) - 1)) = toUpperCase(q)

\* C11: the answer to a search for a non-blank q holds every article whose
\* identifier contains q, letter case aside.  Stated for the published
\* articles, the only ones a search may return.
C11_IdentifierSubstringFound ==
  [][(resp' # resp /\ resp'.op = "search" /\ trim(resp'.kb) # <<>>)
       => \A i \in 1..Len(store) :
            (/\ store[i].status = "published"
             /\ includes(store[i].articleNumber, trim(resp'.kb)))
              => \E j \in 1..Len(resp'.items) : resp'.items[j] = store[i]]_vars

\* C12: the articles of a search answer are in the order of descending text
\* score, then of descending update time.
C12_SearchOrderedByScoreThenRecency ==
  resp.op = "search"
    => \A i, j \in 1..Len(resp.items) :
         i < j =>
           LET q == trim(resp.kb)
               si == textScore(resp.items[i], q)
               sj == textScore(resp.items[j], q)
           IN si > sj \/ (si = sj /\ resp.items[i].updatedAt >= resp.items[j].updatedAt)

\* C13: a search whose query is absent, empty or white space only is
\* answered with an empty list.
C13_BlankQueryReturnsNothing ==
  (resp.op = "search" /\ trim(resp.kb) = <<>>) => (resp.code = 200 /\ resp.items = <<>>)

\* C13 witness: a white-space query answered while the store holds a
\* published article.
C13_Witness ==
  /\ resp.op = "search" /\ resp.kb = <<" ">> /\ resp.items = <<>>
  /\ \E i \in 1..Len(store) : store[i].status = "published"

\* C14: a get, update or delete request for an identifier that no stored
\* article has is answered 404 and leaves the store as it was.
C14_NotFoundHasNoEffect ==
  [][(resp' # resp /\ resp'.op \in {"get", "update", "delete"} /\ ~inStore(store, resp'.kb))
       => (resp'.code = 404 /\ store' = store)]_vars

\* C14 witness: an update or delete answered 404 while the store holds
\* another article.
C14_Witness ==
  /\ resp.op \in {"update", "delete"} /\ resp.code = 404
  /\ Len(store) >= 1 /\ ~inStore(store, resp.kb)

\* C15: a create request without title or without content, an import-text
\* request without text and a bulk request without items are answered 400
\* and leave the store as it was.
C15_MissingFieldIs400 ==
  [][(/\ resp' # resp
      /\ \/ /\ resp'.op = "create"
            /\ \E i \in 1..Len(resp'.body) :
                 resp'.body[i].title = <<>> \/ resp'.body[i].content = <<>>
         \/ resp'.op = "import" /\ "text" \notin resp'.given
         \/ resp'.op = "bulk" /\ resp'.n = 0)
       => (resp'.code = 400 /\ store' = store)]_vars

\* C16: an import-text request or a split-mode upload whose text has no
\* section is answered 400 and inserts no article.
C16_NoSectionsIs400 ==
  [][(/\ resp' # resp
      /\ resp'.op \in {"import", "upload"}
      /\ "text" \in resp'.given
      /\ resp'.n = 0)
       => (resp'.code = 400 /\ store' = store)]_vars

\* C16 witness: a split-mode upload of a text without sections answered 400
\* while the store holds an article.
C16_Witness ==
  /\ resp.op = "upload" /\ resp.given = {"file", "text"} /\ resp.n = 0
  /\ resp.code = 400
  /\ Len(store) >= 1

\* C17: when an upload request that carried a file has been answered, its
\* temporary file is gone.
C17_TempFileDiscarded ==
  (resp.op = "upload" /\ "file" \in resp.given) => files = 0

\* C18: every stored article has a non-empty title and a non-empty
\* identifier.
C18_TitleAndIdentifierNonEmpty ==
  \A i \in 1..Len(store) : store[i].title # <<>> /\ store[i].articleNumber # <<>>

\* The stored article with this identifier.
docOf(s, id) == s[CHOOSE i \in 1..Len(s) : s[i].articleNumber = id]

\* C19: an article created by create or bulk insert is stored with the
\* summary makeSummary(content) when the request has no summary, and with the
\* trimmed summary of the request when it has one.
C19_SummaryDerivedOrTrimmed ==
  [][(/\ resp' # resp
      /\ resp'.op \in {"create", "bulk"}
      /\ resp'.added > 0 /\ resp'.added = Len(resp'.body))
       => \A i \in 1..Len(resp'.body) :
            LET id == IF resp'.op = "bulk" THEN resp'.ids[i] ELSE resp'.kb
                b == resp'.body[i]
            IN docOf(store', id).summary =
                 IF b.summary = <<>> THEN makeSummary("v2", b.content)
                 ELSE trim(b.summary)]_vars

\* C20: makeSummary(x) has at most Budget + 3 characters, and
\* makeSummary(makeSummary(x)) = makeSummary(x).
C20_SummaryBoundedAndIdempotent ==
  /\ call.step >= 1 => Len(call.out) <= Budget + 3
  /\ call.step = 2 => call.again = call.out

\* C20 witness: a content with white space, longer than the budget, cut at a
\* space, and summarized twice.
C20_Witness ==
  /\ call.step = 2
  /\ Len(call.arg) > Budget + 3
  /\ \E i \in 1..Len(call.arg) : IsSpace(call.arg[i])
  /\ Len(call.out) = Budget + 3
  /\ call.out[Budget] = " "

\* The position in a line after an optional number and "Task type:", 0 when
\* the line is not a marker line.
markerAt(l) ==
  LET j == skipSpace(l, 1)
      d == skipDigits(l, j)
      n == IF d > j /\ d <= Len(l) /\ l[d] = "." THEN skipSpace(l, d + 1) ELSE j
  IN  IF literalAt(l, n) THEN n + Len(TaskType) ELSE 0

\* The numbers of the marker lines of a text, in document order.
markerLines(text) ==
  LET lines == splitLines(text, 1, 1)
  IN  SelectSeq([i \in DOMAIN lines |-> i], LAMBDA i : markerAt(lines[i]) # 0)

\* A text with every line trimmed.
trimLines(s) ==
  LET lines == splitLines(s, 1, 1)
  IN  trim(join([i \in DOMAIN lines |-> trim(lines[i])]))

\* The section the k-th marker line stands for: the rest of the marker line
\* as title, the lines up to the next marker line as content.
markedSection(text, k) ==
  LET lines == splitLines(text, 1, 1)
      ms == markerLines(text)
      from == ms[k]
      to == IF k < Len(ms) THEN ms[k + 1] - 1 ELSE Len(lines)
      rest == trim(SubSeq(lines[from], markerAt(lines[from]), Len(lines[from])))
  IN  [title |-> IF rest = <<>> THEN Untitled ELSE rest,
       content |-> trimLines(join(SubSeq(lines, from + 1, to)))]

\* C21: split emits one section per marker line, in document order, its title
\* the text after the marker on that line and its content the lines up to the
\* next marker line (a text without marker gives no section).
C21_OneSectionPerMarkerLine ==
  call.step = 1 =>
    /\ Len(call.out) = Len(markerLines(call.arg))
    /\ \A k \in 1..Len(call.out) :
         /\ call.out[k].title = markedSection(call.arg, k).title
         /\ trimLines(call.out[k].content) = markedSection(call.arg, k).content

\* C22: split emits as many sections as the text has markers: one with empty
\* content is emitted too, and the text before the first marker is not.
C22_SectionCountIsMarkerCount ==
  call.step = 1 => Len(call.out) = Len(markerLines(call.arg))

\* C23: no section emitted by split has an empty title.
C23_TitleNeverEmpty ==
  call.step = 1 => \A k \in 1..Len(call.out) : call.out[k].title # <<>>

\* id is some prefix followed by exactly w digits.
padded(id, w) ==
  /\ Len(id) >= w
  /\ \A k \in (Len(id) - w + 1)..Len(id) : IsDigit(id[k])

\* C24: every identifier the allocator returns and every identifier an import
\* batch assigns is a prefix followed by the number left-padded with zeros to
\* width 6.
C24_IdentifiersZeroPadded ==
  /\ \A i \in 1..Len(issued) : padded(issued[i], 6)
  /\ resp.op \in {"import", "upload"} => \A i \in 1..Len(resp.ids) : padded(resp.ids[i], 6)

\* C25: when a split-mode upload fails on a section, the failing request
\* leaves the store as it was: the articles it created for the sections
\* before are not rolled back.
C25_FailedUploadKeepsEarlierSections ==
  [][\A r \in Req :
       (req[r].pc = "upload" /\ req'[r].pc = "idle"
          /\ resp'.op = "upload" /\ resp'.code = 500)
         => /\ store' = store
            /\ \A i \in 1..Len(req[r].ids) :
                 inStore(store, req[r].ids[i]) => inStore(store', req[r].ids[i])]_vars

\* C25 witness: an upload answered 500 on its second section, whose first
\* section is stored.
C25_Witness ==
  /\ resp.op = "upload" /\ resp.code = 500
  /\ resp.added >= 1
  /\ Len(resp.ids) = resp.added + 1
  /\ \A i \in 1..resp.added : inStore(store, resp.ids[i])

\* The greatest identifier number in a non-empty store.
maxNum(s) ==
  CHOOSE n \in {idNum(s[i].articleNumber) : i \in 1..Len(s)} :
    \A i \in 1..Len(s) : idNum(s[i].articleNumber) <= n

\* C26: getNextKB returns KB-1001 on an empty store and otherwise KB- followed
\* by one plus the numerically greatest identifier number in the store.
C26_NextIsGreatestPlusOne ==
  [][(variant = "v3" /\ Len(issued') = Len(issued) + 1)
       => issued'[Len(issued')] =
            IF store = <<>> THEN fmtId(KBPrefix, 1001)
            ELSE fmtId(KBPrefix, maxNum(store) + 1)]_vars

\* The store holds exactly the two demo articles.
seeded(s) == \E now \in Clock : s = demo(now)

\* C27: a seed request on a non-empty store changes nothing, and seed requests
\* that find the store empty, one after the other or interleaved, leave the
\* two demo articles in the store and are not answered with an error.
C27_SeedIdempotent ==
  [][/\ (req' = req /\ resp'.op = "seed" /\ resp' # resp)
          => (store # <<>> /\ store' = store /\ resp'.code = 200)
     /\ \A r \in Req :
          (req[r].pc = "seed" /\ req'[r].pc = "idle" /\ (store = <<>> \/ seeded(store)))
            => (seeded(store') /\ resp'.code = 200)]_vars

\* C28: a user's department is the department of every admin whose approve
\* request set the user's approved flag, and an approve request of a caller
\* who is not an admin is answered 403 and changes no user.
C28_ApprovedInApproversDepartment ==
  [][/\ \A u \in 1..Len(users') :
          \A d \in users'[u].approvers :
            users'[u].approved /\ users'[u].department = d
     /\ (resp' # resp /\ resp'.op = "approve"
           /\ "token" \in resp'.given /\ "admin" \notin resp'.given)
          => (resp'.code = 403 /\ users' = users)]_vars

\* C29: a login is answered with a token only for a user for whom a verify
\* request was answered 200 before, and no user's verification token is
\* accepted twice.
C29_LoginOnlyAfterVerify ==
  /\ (resp.op = "login" /\ resp.code = 200)
       => users[findByEmail(users, resp.user)].accepted >= 1
  /\ \A u \in 1..Len(users) : users[u].accepted <= 1

\* C30: of interleaved register requests for one email, each with name and
\* password, one creates the user; every other one is answered 400 and no
\* second user with the email is stored.
C30_DuplicateRegisterIs400 ==
  [][/\ \A u, w \in 1..Len(users') : users'[u].email = users'[w].email => u = w
     /\ \A r \in Req :
          (flight[r].pc = "register" /\ flight'[r].pc = "idle" /\ flight[r].valid
             /\ findByEmail(users, flight[r].email) # 0)
            => resp'.code = 400]_vars

====
